---- MODULE Spec2Model ----
(***************************************************************************)
(* tlcfi_assimilator: the batch pipeline that reads TLC-FI log lines,      *)
(* normalises the 32-bit controller tick into ms_from_beginning,           *)
(* accumulates signal / detector change sets and encodes them as VLog3     *)
(* messages.                                                               *)
(*                                                                         *)
(* Sources: src/src/main.rs (driver loop), src/src/tlcfi_parsing.rs        *)
(* (decoder and tick normaliser), src/src/lib.rs (data types and the       *)
(* state-code tables), src/src/vlog_transformer.rs (encoder).              *)
(*                                                                         *)
(* The driver of main.rs still shows the call parse_string(line,           *)
(* first_tick); the decoder of tlcfi_parsing.rs takes the whole            *)
(* AssimilationData by mutable reference.  The loop is modelled with the   *)
(* control flow of main.rs and the callee of tlcfi_parsing.rs.             *)
(***************************************************************************)
EXTENDS Integers, Sequences, FiniteSets, TLC

(***************************************************************************)
(* u64 values.  The tick constant 4294967295 does not fit the 32-bit       *)
(* integers of TLC, so a u64 is written as <<hi, lo>>, standing for        *)
(* hi * Base + lo with 0 <= lo < Base.  U(4294, 967295) reads as the       *)
(* decimal number 4294967295.                                              *)
(***************************************************************************)
Base == 1000 * 1000

U(hi, lo) == <<hi, lo>>

Lt(a, b) == a[1] < b[1] \/ (a[1] = b[1] /\ a[2] < b[2])

Le(a, b) == a = b \/ Lt(a, b)

Add(a, b) == <<a[1] + b[1] + ((a[2] + b[2]) \div Base), (a[2] + b[2]) % Base>>

\* a - b for a >= b (every call site below is guarded or checked)
Sub(a, b) ==
    IF a[2] >= b[2] THEN <<a[1] - b[1], a[2] - b[2]>>
                    ELSE <<a[1] - b[1] - 1, a[2] + Base - b[2]>>

\* Option<T>
None == <<>>

Some(v) == <<v>>

Unwrap(o) == o[1]

MAX_TICKS == U(4294, 967295)

small_enough_difference == U(0, 5000)

(***************************************************************************)
(* JSON values as the json crate presents them to the code.                *)
(*   "num"   a number that as_fixed_point_u64(0) turns into a u64          *)
(*   "range" a number as_fixed_point_u64(0) rejects (negative, NaN): the   *)
(*           code's .expect("... outside the expected range") aborts       *)
(*   "null"  JsonValue::Null, also what indexing a missing key gives       *)
(*   "str"   a string (Short or String)                                    *)
(*   "arr"   an array                                                      *)
(*   "obj"   any other value                                               *)
(***************************************************************************)
\* scalars in a numeric position (type, state): v is the u64 of a "num"
JNum(n) == [k |-> "num", v |-> n]

JRange == [k |-> "range", v |-> 0]

JNull == [k |-> "null", v |-> 0]

JText == [k |-> "str", v |-> 0]

\* entries of the ids array: a name, or a number where a name is expected
JStr(s) == [k |-> "str", v |-> s]

JNotStr == [k |-> "num", v |-> "7"]

\* values in an array position (ids, states)
JArr(s) == [k |-> "arr", v |-> s]

JNoArr == [k |-> "null", v |-> <<>>]

JObj == [k |-> "obj", v |-> <<>>]

\* params.ticks: a u64 number, absent / not a number, or a rejected number
JTick(t) == [k |-> "num", v |-> t]

TickAbsent == [k |-> "null", v |-> U(0, 0)]

TickRange == [k |-> "range", v |-> U(0, 0)]

(***************************************************************************)
(* lib.rs: state enums and their two tables.  A panic! of the code is the  *)
(* value Panic here; the caller aborts the run on it.                      *)
(***************************************************************************)
Panic == "panic"

SignalStates == {"Unavailable", "Dark", "Red", "Amber", "Green", "AmberFlashing"}

DetectorStates == {"FREE", "OCCUPIED"}

\* impl From<u64> for SignalState with code 4 taken for Red
SignalStateFrom_four(tlc_fi_state) ==
    CASE tlc_fi_state = 0 -> "Unavailable"
      [] tlc_fi_state = 1 -> "Dark"
      [] tlc_fi_state \in {2, 3, 4} -> "Red"
      [] tlc_fi_state \in {5, 6} -> "Green"
      [] tlc_fi_state \in {7, 8} -> "Amber"
      [] tlc_fi_state = 9 -> "AmberFlashing"
      [] OTHER -> Panic

\* impl From<u64> for SignalState
SignalStateFrom(tlc_fi_state) ==
    CASE tlc_fi_state = 0 -> "Unavailable"
      [] tlc_fi_state = 1 -> "Dark"
      [] tlc_fi_state \in {2, 3} -> "Red"
      [] tlc_fi_state \in {5, 6} -> "Green"
      [] tlc_fi_state \in {7, 8} -> "Amber"
      [] tlc_fi_state = 9 -> "AmberFlashing"
      [] OTHER -> Panic

\* SignalState::to_vlog_state
SignalToVlogState(state) ==
    CASE state = "Unavailable" -> 4
      [] state = "Dark" -> 4
      [] state = "Red" -> 0
      [] state = "Green" -> 1
      [] state = "Amber" -> 2
      [] state = "AmberFlashing" -> 5

\* impl From<u64> for DetectorState
DetectorStateFrom(tlc_fi_state) ==
    CASE tlc_fi_state = 0 -> "FREE"
      [] tlc_fi_state = 1 -> "OCCUPIED"
      [] OTHER -> Panic

\* DetectorState::to_vlog_state
DetectorToVlogState(state) ==
    CASE state = "FREE" -> 0
      [] state = "OCCUPIED" -> 1

\* struct TimestampedChanges, with Default::default() for the unset vectors
TimestampedChanges(ms, sn, ss, dn, ds) ==
    [ms_from_beginning |-> ms, signal_names |-> sn, signal_states |-> ss,
     detector_names |-> dn, detector_states |-> ds]

\* the clock fields of struct AssimilationData
ClockData(ft, pt, bm) == [first_tick |-> ft, previous_tick |-> pt, bonus_ms |-> bm]

(***************************************************************************)
(* tlcfi_parsing.rs                                                        *)
(***************************************************************************)
\* A log line: shape is "in" / "out" (direction of a line that splits in
\* three on "- ") or "unsplit"; json is FALSE when the payload does not
\* parse; ticks, type, ids, states are params.ticks,
\* params.update[0].objects.type, .objects.ids and params.update[0].states.
Line(shape, json, ticks, type, ids, states) ==
    [shape |-> shape, json |-> json, ticks |-> ticks, type |-> type,
     ids |-> ids, states |-> states]

\* find_first_tick: [panic, tick] with tick an Option
find_first_tick(line) ==
    IF ~line.json THEN [panic |-> FALSE, tick |-> None]
    ELSE CASE line.ticks.k = "num" -> [panic |-> FALSE, tick |-> Some(line.ticks.v)]
           [] line.ticks.k = "range" -> [panic |-> TRUE, tick |-> None]
           [] OTHER -> [panic |-> FALSE, tick |-> None]

\* handle_tick_overflow_or_reset with the threshold test written <= : a
\* gap of exactly 5000 would count as an overflow
handle_tick_overflow_or_reset_le(data, first_tick, tick) ==
    IF data.previous_tick = None
    THEN [panic |-> TRUE, data |-> data, ms |-> U(0, 0)]
    ELSE LET previous_tick == Unwrap(data.previous_tick) IN
         IF Le(Sub(MAX_TICKS, previous_tick), small_enough_difference)
         THEN LET bonus == Sub(MAX_TICKS, first_tick) IN
              [panic |-> FALSE,
               data |-> [data EXCEPT !.bonus_ms = Some(bonus), !.first_tick = Some(tick)],
               ms |-> Add(bonus, tick)]
         ELSE LET bonus == Sub(previous_tick, first_tick) IN
              [panic |-> FALSE,
               data |-> [data EXCEPT !.bonus_ms = Some(bonus), !.first_tick = Some(tick)],
               ms |-> bonus]

\* handle_tick_overflow_or_reset with the reset branch returning
\* bonus_ms + tick as the overflow branch does
handle_tick_overflow_or_reset_plus(data, first_tick, tick) ==
    IF data.previous_tick = None
    THEN [panic |-> TRUE, data |-> data, ms |-> U(0, 0)]
    ELSE LET previous_tick == Unwrap(data.previous_tick) IN
         IF Lt(Sub(MAX_TICKS, previous_tick), small_enough_difference)
         THEN LET bonus == Sub(MAX_TICKS, first_tick) IN
              [panic |-> FALSE,
               data |-> [data EXCEPT !.bonus_ms = Some(bonus), !.first_tick = Some(tick)],
               ms |-> Add(bonus, tick)]
         ELSE LET bonus == Sub(previous_tick, first_tick) IN
              [panic |-> FALSE,
               data |-> [data EXCEPT !.bonus_ms = Some(bonus), !.first_tick = Some(tick)],
               ms |-> Add(bonus, tick)]

\* handle_tick_overflow_or_reset leaving first_tick where it was: the
\* stored previous_tick would then fall below first_tick
handle_tick_overflow_or_reset_keep_first(data, first_tick, tick) ==
    IF data.previous_tick = None
    THEN [panic |-> TRUE, data |-> data, ms |-> U(0, 0)]
    ELSE LET previous_tick == Unwrap(data.previous_tick) IN
         IF Lt(Sub(MAX_TICKS, previous_tick), small_enough_difference)
         THEN LET bonus == Sub(MAX_TICKS, first_tick) IN
              [panic |-> FALSE,
               data |-> [data EXCEPT !.bonus_ms = Some(bonus)],
               ms |-> Add(bonus, tick)]
         ELSE LET bonus == Sub(previous_tick, first_tick) IN
              [panic |-> FALSE,
               data |-> [data EXCEPT !.bonus_ms = Some(bonus)],
               ms |-> bonus]

\* handle_tick_overflow_or_reset: [panic, data, ms]
handle_tick_overflow_or_reset(data, first_tick, tick) ==
    IF data.previous_tick = None
    THEN [panic |-> TRUE, data |-> data, ms |-> U(0, 0)]
    ELSE LET previous_tick == Unwrap(data.previous_tick) IN
         IF Lt(Sub(MAX_TICKS, previous_tick), small_enough_difference)
         THEN LET bonus == Sub(MAX_TICKS, first_tick) IN
              [panic |-> FALSE,
               data |-> [data EXCEPT !.bonus_ms = Some(bonus), !.first_tick = Some(tick)],
               ms |-> Add(bonus, tick)]
         ELSE LET bonus == Sub(previous_tick, first_tick) IN
              [panic |-> FALSE,
               data |-> [data EXCEPT !.bonus_ms = Some(bonus), !.first_tick = Some(tick)],
               ms |-> bonus]

\* find_ms_from_beginning storing previous_tick only when the tick went
\* backwards
find_ms_from_beginning_prev_backward(line, data) ==
    CASE line.ticks.k = "num" ->
           LET tick == line.ticks.v IN
           IF data.first_tick = None
           THEN [panic |-> TRUE, data |-> data, ms |-> U(0, 0)]
           ELSE LET first_tick == Unwrap(data.first_tick)
                    r == IF Lt(tick, first_tick)
                         THEN handle_tick_overflow_or_reset(data, first_tick, tick)
                         ELSE [panic |-> FALSE, data |-> data, ms |-> Sub(tick, first_tick)]
                IN  IF r.panic THEN r
                    ELSE IF Lt(tick, first_tick)
                         THEN [r EXCEPT !.data = [r.data EXCEPT !.previous_tick = Some(tick)]]
                         ELSE r
      [] line.ticks.k = "range" -> [panic |-> TRUE, data |-> data, ms |-> U(0, 0)]
      [] OTHER -> [panic |-> FALSE, data |-> data, ms |-> U(0, 1)]

\* find_ms_from_beginning storing previous_tick only in the normal branch
find_ms_from_beginning_prev_normal(line, data) ==
    CASE line.ticks.k = "num" ->
           LET tick == line.ticks.v IN
           IF data.first_tick = None
           THEN [panic |-> TRUE, data |-> data, ms |-> U(0, 0)]
           ELSE LET first_tick == Unwrap(data.first_tick)
                    r == IF Lt(tick, first_tick)
                         THEN handle_tick_overflow_or_reset(data, first_tick, tick)
                         ELSE [panic |-> FALSE, data |-> data, ms |-> Sub(tick, first_tick)]
                IN  IF r.panic THEN r
                    ELSE IF Lt(tick, first_tick)
                         THEN r
                         ELSE [r EXCEPT !.data = [r.data EXCEPT !.previous_tick = Some(tick)]]
      [] line.ticks.k = "range" -> [panic |-> TRUE, data |-> data, ms |-> U(0, 0)]
      [] OTHER -> [panic |-> FALSE, data |-> data, ms |-> U(0, 1)]

\* find_ms_from_beginning adding the stored bonus_ms in the normal branch
find_ms_from_beginning_with_bonus(line, data) ==
    CASE line.ticks.k = "num" ->
           LET tick == line.ticks.v IN
           IF data.first_tick = None
           THEN [panic |-> TRUE, data |-> data, ms |-> U(0, 0)]
           ELSE LET first_tick == Unwrap(data.first_tick)
                    r == IF Lt(tick, first_tick)
                         THEN handle_tick_overflow_or_reset(data, first_tick, tick)
                         ELSE [panic |-> FALSE, data |-> data, ms |-> IF data.bonus_ms = None THEN Sub(tick, first_tick)
                                     ELSE Add(Unwrap(data.bonus_ms), Sub(tick, first_tick))]
                IN  IF r.panic THEN r
                    ELSE [r EXCEPT !.data = [r.data EXCEPT !.previous_tick = Some(tick)]]
      [] line.ticks.k = "range" -> [panic |-> TRUE, data |-> data, ms |-> U(0, 0)]
      [] OTHER -> [panic |-> FALSE, data |-> data, ms |-> U(0, 1)]

\* find_ms_from_beginning: [panic, data, ms]
find_ms_from_beginning(line, data) ==
    CASE line.ticks.k = "num" ->
           LET tick == line.ticks.v IN
           IF data.first_tick = None
           THEN [panic |-> TRUE, data |-> data, ms |-> U(0, 0)]
           ELSE LET first_tick == Unwrap(data.first_tick)
                    r == IF Lt(tick, first_tick)
                         THEN handle_tick_overflow_or_reset(data, first_tick, tick)
                         ELSE [panic |-> FALSE, data |-> data, ms |-> Sub(tick, first_tick)]
                IN  IF r.panic THEN r
                    ELSE [r EXCEPT !.data = [r.data EXCEPT !.previous_tick = Some(tick)]]
      [] line.ticks.k = "range" -> [panic |-> TRUE, data |-> data, ms |-> U(0, 0)]
      [] OTHER -> [panic |-> FALSE, data |-> data, ms |-> U(0, 1)]

\* Results of the decoder: Ok(changes), Err(_), or a panic.  data is the
\* AssimilationData as the call leaves it; ms records what
\* find_ms_from_beginning returned (None when it was not called).
Ok(data, cs, ms) == [status |-> "ok", data |-> data, changes |-> cs, ms |-> ms]

Err(data, ms) == [status |-> "err", data |-> data, changes |-> <<>>, ms |-> ms]

Abort(data) == [status |-> "panic", data |-> data, changes |-> <<>>, ms |-> None]

\* the loop of parse_change_json pushing the name before it looks at the
\* state, so that a null state still leaves its name behind
RECURSIVE collect_names_and_states_early(_, _, _, _, _)
collect_names_and_states_early(ids_vec, states_vec, i, names, states) ==
    IF i > Len(ids_vec) THEN [status |-> "ok", names |-> names, states |-> states]
    ELSE IF ids_vec[i].k # "str" THEN [status |-> "err", names |-> names, states |-> states]
    ELSE CASE states_vec[i].k = "num" ->
                collect_names_and_states_early(ids_vec, states_vec, i + 1,
                    Append(names, ids_vec[i].v), Append(states, states_vec[i].v))
           [] states_vec[i].k = "range" ->
                [status |-> "panic", names |-> names, states |-> states]
           [] states_vec[i].k = "null" ->
                collect_names_and_states_early(ids_vec, states_vec, i + 1,
                    Append(names, ids_vec[i].v), states)
           [] OTHER -> [status |-> "err", names |-> names, states |-> states]

\* The for loop of parse_change_json over ids_vec, from index i with the
\* names and states pushed so far: [status, names, states]
RECURSIVE collect_names_and_states(_, _, _, _, _)
collect_names_and_states(ids_vec, states_vec, i, names, states) ==
    IF i > Len(ids_vec) THEN [status |-> "ok", names |-> names, states |-> states]
    ELSE IF ids_vec[i].k # "str" THEN [status |-> "err", names |-> names, states |-> states]
    ELSE CASE states_vec[i].k = "num" ->
                collect_names_and_states(ids_vec, states_vec, i + 1,
                    Append(names, ids_vec[i].v), Append(states, states_vec[i].v))
           [] states_vec[i].k = "range" ->
                [status |-> "panic", names |-> names, states |-> states]
           [] states_vec[i].k = "null" ->
                collect_names_and_states(ids_vec, states_vec, i + 1, names, states)
           [] OTHER -> [status |-> "err", names |-> names, states |-> states]

\* for state in states { signal_states.push(state.into()) }
signal_states_from(states) == [i \in 1..Len(states) |-> SignalStateFrom(states[i])]

\* for state in states { detector_states.push(state.into()) }
detector_states_from(states) == [i \in 1..Len(states) |-> DetectorStateFrom(states[i])]

\* parse_change_json; change_type is "Signal" or "Detector"
parse_change_json(line, data, timestamped_changes, change_type) ==
    LET t == find_ms_from_beginning(line, data)
        ms == Some(t.ms)
    IN
    IF t.panic THEN Abort(data)
    ELSE IF line.ids.k = "null" THEN Ok(t.data, timestamped_changes, ms)
    ELSE IF line.ids.k # "arr" THEN Err(t.data, ms)
    ELSE IF line.states.k # "arr" THEN Err(t.data, ms)
    ELSE IF Len(line.ids.v) # Len(line.states.v) THEN Abort(t.data)
    ELSE LET c == collect_names_and_states(line.ids.v, line.states.v, 1, <<>>, <<>>) IN
         IF c.status = "panic" THEN Abort(t.data)
         ELSE IF c.status = "err" THEN Err(t.data, ms)
         ELSE IF c.names = <<>> THEN Ok(t.data, timestamped_changes, ms)
         ELSE IF change_type = "Detector"
         THEN LET detector_states == detector_states_from(c.states) IN
              IF \E i \in 1..Len(detector_states) : detector_states[i] = Panic
              THEN Abort(t.data)
              ELSE Ok(t.data, Append(timestamped_changes,
                       TimestampedChanges(t.ms, <<>>, <<>>, c.names, detector_states)), ms)
         ELSE LET signal_states == signal_states_from(c.states) IN
              IF \E i \in 1..Len(signal_states) : signal_states[i] = Panic
              THEN Abort(t.data)
              ELSE Ok(t.data, Append(timestamped_changes,
                       TimestampedChanges(t.ms, c.names, signal_states, <<>>, <<>>)), ms)

\* parse_json answering an unsupported type with an error
parse_json_strict(line, data) ==
    IF line.type.k = "range" THEN Abort(data)
    ELSE LET message_type == IF line.type.k = "num" THEN line.type.v ELSE 0 IN
         CASE message_type = 3 -> parse_change_json(line, data, <<>>, "Signal")
           [] message_type = 4 -> parse_change_json(line, data, <<>>, "Detector")
           [] OTHER -> Err(data, None)

\* parse_json: the dispatch on params.update[0].objects.type
parse_json(line, data) ==
    IF line.type.k = "range" THEN Abort(data)
    ELSE LET message_type == IF line.type.k = "num" THEN line.type.v ELSE 0 IN
         CASE message_type = 3 -> parse_change_json(line, data, <<>>, "Signal")
           [] message_type = 4 -> parse_change_json(line, data, <<>>, "Detector")
           [] OTHER -> Ok(data, <<>>, None)

\* parse_string
parse_string(line, data) ==
    IF line.json THEN parse_json(line, data) ELSE Err(data, None)

(***************************************************************************)
(* vlog_transformer.rs: the VLog3 encoder.  A message is the string the    *)
(* code builds; format! is modelled digit by digit.                        *)
(***************************************************************************)
TIME_REFERENCE_INTERVAL_IN_S == 300

HexChar == <<"0", "1", "2", "3", "4", "5", "6", "7", "8", "9", "A", "B", "C", "D", "E", "F">>

\* the digits of n in the given radix, most significant first, no padding
RECURSIVE Digits(_, _)
Digits(n, radix) ==
    IF n < radix THEN HexChar[n + 1]
    ELSE Digits(n \div radix, radix) \o HexChar[(n % radix) + 1]

\* the fill of a {:0w} format: zeros up to a minimum width, never a cut
RECURSIVE ZeroFill(_, _)
ZeroFill(s, width) == IF Len(s) >= width THEN s ELSE ZeroFill("0" \o s, width)

\* format!("{:0wX}", n) for n >= 0
FormatX(n, width) == ZeroFill(Digits(n, 16), width)

\* format!("{:0w}", n) and format!("{:?}", n) for n >= 0
FormatD(n, width) == ZeroFill(Digits(n, 10), width)

\* from_tlcfi_time_to_vlog_time rounding to the nearest decisecond
from_tlcfi_time_to_vlog_time_rounded(tlcfi_time) ==
    tlcfi_time[1] * 10000 + ((tlcfi_time[2] + 50) \div 100)

\* from_tlcfi_time_to_vlog_time: tlcfi_time / 100, as a plain integer
from_tlcfi_time_to_vlog_time(tlcfi_time) == tlcfi_time[1] * 10000 + (tlcfi_time[2] \div 100)

\* NaiveDateTime
DateTime(y, mo, d, h, mi, s, milli) ==
    [year |-> y, month |-> mo, day |-> d, hour |-> h, minute |-> mi, second |-> s,
     milli |-> milli]

\* chrono's calendar: the days of a month
DaysInMonth(year, month) ==
    IF month = 2
    THEN IF (year % 4 = 0 /\ year % 100 # 0) \/ year % 400 = 0 THEN 29 ELSE 28
    ELSE IF month \in {4, 6, 9, 11} THEN 30 ELSE 31

\* chrono's calendar: the date n days after year-month-day
RECURSIVE AddDays(_, _, _, _)
AddDays(year, month, day, n) ==
    IF day + n <= DaysInMonth(year, month)
    THEN [year |-> year, month |-> month, day |-> day + n]
    ELSE AddDays(IF month = 12 THEN year + 1 ELSE year,
                 IF month = 12 THEN 1 ELSE month + 1,
                 1, n - (DaysInMonth(year, month) - day + 1))

\* the format! calls of get_time_reference for a date, a second of the day
\* and a millisecond of the second
format_time_reference(date, second_of_day, milli) ==
    FormatX(1, 2)
        \o FormatD(date.year, 2) \o FormatD(date.month, 2) \o FormatD(date.day, 2)
        \o FormatD(second_of_day \div 3600, 2)
        \o FormatD((second_of_day % 3600) \div 60, 2)
        \o FormatD(second_of_day % 60, 2)
        \o FormatD(milli \div 100, 1)
        \o "0"

\* start_date_time.checked_add_signed(Duration::milliseconds(ms)), then the
\* formatting: seconds is the sum counted in whole seconds from the start of
\* start_date_time's day, milli the milliseconds on top of it
time_reference_at(start_date_time, seconds, milli) ==
    format_time_reference(
        AddDays(start_date_time.year, start_date_time.month, start_date_time.day,
                (seconds + (milli \div 1000)) \div 86400),
        (seconds + (milli \div 1000)) % 86400,
        milli % 1000)

\* get_time_reference
get_time_reference(start_date_time, ms_since_beginning) ==
    time_reference_at(start_date_time,
        start_date_time.hour * 3600 + start_date_time.minute * 60
            + start_date_time.second
            + ms_since_beginning[1] * 1000 + (ms_since_beginning[2] \div 1000),
        start_date_time.milli + (ms_since_beginning[2] % 1000))

\* A character of tlc_name: its UTF-16 code units and the number of bytes of
\* its UTF-8 encoding.  A &str is a sequence of these.
Char(units, bytes) == [units |-> units, bytes |-> bytes]

\* str::encode_utf16
RECURSIVE encode_utf16(_)
encode_utf16(s) == IF s = <<>> THEN <<>> ELSE Head(s).units \o encode_utf16(Tail(s))

\* str::len: the length in bytes
RECURSIVE str_len(_)
str_len(s) == IF s = <<>> THEN 0 ELSE Head(s).bytes + str_len(Tail(s))

\* The first loop of get_vlog_info from the unit of (0-based) index i: push
\* the unit, then break if i > 19
RECURSIVE push_code_units(_, _, _)
push_code_units(units, i, encoded_tlc_name) ==
    IF i >= Len(units) THEN encoded_tlc_name
    ELSE IF i > 19 THEN encoded_tlc_name \o FormatX(units[i + 1], 2)
    ELSE push_code_units(units, i + 1, encoded_tlc_name \o FormatX(units[i + 1], 2))

\* for _ in from..20 { push_str("20") }
RECURSIVE push_spaces(_, _)
push_spaces(from, encoded_tlc_name) ==
    IF from >= 20 THEN encoded_tlc_name ELSE push_spaces(from + 1, encoded_tlc_name \o "20")

\* get_vlog_info
get_vlog_info(tlc_name) ==
    FormatX(4, 2) \o "030000"
        \o push_spaces(str_len(tlc_name), push_code_units(encode_utf16(tlc_name), 0, ""))

\* insert_vlog_statuses with the two records in the other order
insert_vlog_statuses_info_first(start_date_time, tlc_name) ==
    <<get_vlog_info(tlc_name), get_time_reference(start_date_time, U(0, 0))>>

\* insert_vlog_statuses
insert_vlog_statuses(start_date_time, tlc_name) ==
    <<get_time_reference(start_date_time, U(0, 0)), get_vlog_info(tlc_name)>>

\* The for loop of split_changes_on_data_limit_signal from the name of
\* index i, with the chunk being filled and the chunks pushed so far; the
\* counter amount_in_timestampted_changes is the length of the chunk
RECURSIVE split_loop(_, _, _, _, _)
split_loop(changes, max_amount, i, last_timestamped_changes, split_changes) ==
    IF i > Len(changes.signal_names)
    THEN Append(split_changes, last_timestamped_changes)
    ELSE IF Len(last_timestamped_changes.signal_names) + 1 = max_amount
    THEN split_loop(changes, max_amount, i + 1,
            TimestampedChanges(changes.ms_from_beginning, <<>>, <<>>, <<>>, <<>>),
            Append(split_changes,
                [last_timestamped_changes EXCEPT
                    !.signal_names = Append(@, changes.signal_names[i]),
                    !.signal_states = Append(@, changes.signal_states[i])]))
    ELSE split_loop(changes, max_amount, i + 1,
            [last_timestamped_changes EXCEPT
                !.signal_names = Append(@, changes.signal_names[i]),
                !.signal_states = Append(@, changes.signal_states[i])],
            split_changes)

\* split_changes_on_data_limit_signal taking the budget of 40 digits for
\* the number of entries
split_changes_on_data_limit_signal_budget(changes, data_size) ==
    split_loop(changes, 40, 1,
        TimestampedChanges(changes.ms_from_beginning, <<>>, <<>>, <<>>, <<>>), <<>>)

\* split_changes_on_data_limit_signal with a budget of 36 digits
split_changes_on_data_limit_signal_nine(changes, data_size) ==
    split_loop(changes, 36 \div data_size, 1,
        TimestampedChanges(changes.ms_from_beginning, <<>>, <<>>, <<>>, <<>>), <<>>)

\* split_changes_on_data_limit_signal
split_changes_on_data_limit_signal(changes, data_size) ==
    split_loop(changes, 40 \div data_size, 1,
        TimestampedChanges(changes.ms_from_beginning, <<>>, <<>>, <<>>, <<>>), <<>>)

\* names.iter().enumerate().map(|(index, name)| (index, mapping.get(name)))
\* with index counted from 1; a name the mapping lacks gives None
vlog_ids(names, mapping) ==
    [index \in 1..Len(names) |->
        IF names[index] \in DOMAIN mapping
        THEN Some(<<index, mapping[names[index]]>>) ELSE None]

\* a step of the stable sort: pair p put behind every pair whose id is not
\* greater than its own
RECURSIVE insert_by_id(_, _)
insert_by_id(sorted, p) ==
    IF sorted = <<>> THEN <<p>>
    ELSE IF sorted[Len(sorted)][2] <= p[2] THEN Append(sorted, p)
    ELSE Append(insert_by_id(SubSeq(sorted, 1, Len(sorted) - 1), p), sorted[Len(sorted)])

\* vlog_ids_in_message.sort_by(|(_, id1), (_, id2)| id1.partial_cmp(id2)):
\* slice::sort_by is stable
RECURSIVE sort_by_id(_)
sort_by_id(pairs) ==
    IF pairs = <<>> THEN <<>>
    ELSE insert_by_id(sort_by_id(SubSeq(pairs, 1, Len(pairs) - 1)), pairs[Len(pairs)])

\* dynamic_string taking the state of the k-th name for the k-th entry of
\* the sorted list
RECURSIVE dynamic_string_by_position(_, _)
dynamic_string_by_position(vlog_ids_in_message, codes) ==
    IF vlog_ids_in_message = <<>> THEN ""
    ELSE FormatX(Head(vlog_ids_in_message)[2], 2)
            \o FormatX(Head(codes), 2)
            \o dynamic_string_by_position(Tail(vlog_ids_in_message), Tail(codes))

\* for (index, id) in vlog_ids_in_message { push_str("{:02X}{:02X}") }, with
\* codes[index] the to_vlog_state() of the state of that index
RECURSIVE dynamic_string(_, _)
dynamic_string(vlog_ids_in_message, codes) ==
    IF vlog_ids_in_message = <<>> THEN ""
    ELSE FormatX(Head(vlog_ids_in_message)[2], 2)
            \o FormatX(codes[Head(vlog_ids_in_message)[1]], 2)
            \o dynamic_string(Tail(vlog_ids_in_message), codes)

signal_codes(signal_states) ==
    [i \in 1..Len(signal_states) |-> SignalToVlogState(signal_states[i])]

detector_codes(detector_states) ==
    [i \in 1..Len(detector_states) |-> DetectorToVlogState(detector_states[i])]

\* The body of the for loop of transform_signal_changes for one chunk, ids
\* being its vlog_ids: the message, or Panic for a name without a mapping
signal_message(changes, ids, ms_of_last_time_reference) ==
    IF \E i \in 1..Len(ids) : ids[i] = None THEN Panic
    ELSE "0E"
            \o FormatX(from_tlcfi_time_to_vlog_time(
                   Sub(changes.ms_from_beginning, ms_of_last_time_reference)), 3)
            \o FormatX(Len(changes.signal_names), 1)
            \o dynamic_string(sort_by_id([i \in 1..Len(ids) |-> Unwrap(ids[i])]),
                              signal_codes(changes.signal_states))

\* The messages of transform_signal_changes for the chunks it was given
signal_messages(chunks, vlog_signal_name_mapping, ms_of_last_time_reference) ==
    [k \in 1..Len(chunks) |->
        signal_message(chunks[k], vlog_ids(chunks[k].signal_names, vlog_signal_name_mapping),
                       ms_of_last_time_reference)]

\* transform_signal_changes: [panic, messages].  to_vlog calls it with
\* ms_of_last_time_reference <= ms_from_beginning: it has just compared the
\* two, so the difference does not wrap here.
transform_signal_changes(signal_changes, vlog_signal_name_mapping, ms_of_last_time_reference) ==
    [panic |-> \E i \in 1..Len(signal_changes.signal_names) :
                   signal_changes.signal_names[i] \notin DOMAIN vlog_signal_name_mapping,
     messages |-> signal_messages(split_changes_on_data_limit_signal(signal_changes, 4),
                                  vlog_signal_name_mapping, ms_of_last_time_reference)]

\* The format! calls of transform_detector_changes, ids being the vlog_ids
\* of the change set: data_amount is format!("{:?}", len), a decimal number
detector_message(detector_changes, ids, ms_of_last_time_reference) ==
    IF \E i \in 1..Len(ids) : ids[i] = None THEN Panic
    ELSE "06"
            \o FormatX(from_tlcfi_time_to_vlog_time(
                   Sub(detector_changes.ms_from_beginning, ms_of_last_time_reference)), 3)
            \o FormatD(Len(detector_changes.detector_names), 1)
            \o dynamic_string(sort_by_id([i \in 1..Len(ids) |-> Unwrap(ids[i])]),
                              detector_codes(detector_changes.detector_states))

\* transform_detector_changes: [panic, messages], messages holding the one
\* message
transform_detector_changes(detector_changes, vlog_detector_name_mapping, ms_of_last_time_reference) ==
    [panic |-> \E i \in 1..Len(detector_changes.detector_names) :
                   detector_changes.detector_names[i] \notin DOMAIN vlog_detector_name_mapping,
     messages |-> <<detector_message(detector_changes,
                        vlog_ids(detector_changes.detector_names, vlog_detector_name_mapping),
                        ms_of_last_time_reference)>>]

\* the test of to_vlog with > for >=
time_reference_due_later(ms_from_beginning, ms_of_last_time_reference) ==
    \/ Lt(ms_from_beginning, ms_of_last_time_reference)
    \/ Lt(U(0, TIME_REFERENCE_INTERVAL_IN_S * 1000),
          Sub(ms_from_beginning, ms_of_last_time_reference))

\* ms_from_beginning - ms_of_last_time_reference >= TIME_REFERENCE_INTERVAL_IN_S * 1000
\* in a build without overflow checks: below the last reference the u64
\* difference wraps to 2^64 minus the gap, far above the interval
time_reference_due(ms_from_beginning, ms_of_last_time_reference) ==
    \/ Lt(ms_from_beginning, ms_of_last_time_reference)
    \/ Le(U(0, TIME_REFERENCE_INTERVAL_IN_S * 1000),
          Sub(ms_from_beginning, ms_of_last_time_reference))

\* The result of one iteration of the for loop of to_vlog once the time
\* reference is settled: [panic, messages, ms_of_last_time_reference], with
\* reference the time reference message pushed for this change set, if any
changes_after_reference(timestamped_changes, reference, ms_of_last_time_reference, t) ==
    [panic |-> t.panic,
     messages |-> reference \o t.messages,
     ms_of_last_time_reference |-> ms_of_last_time_reference]

\* the if / else if of to_vlog on the kind of the change set
transform_changes(timestamped_changes, reference, ms_of_last_time_reference, vlog_signal_name_mapping, vlog_detector_name_mapping) ==
    IF timestamped_changes.signal_names # <<>>
    THEN changes_after_reference(timestamped_changes, reference, ms_of_last_time_reference,
            transform_signal_changes(timestamped_changes, vlog_signal_name_mapping,
                                     ms_of_last_time_reference))
    ELSE IF timestamped_changes.detector_names # <<>>
    THEN changes_after_reference(timestamped_changes, reference, ms_of_last_time_reference,
            transform_detector_changes(timestamped_changes, vlog_detector_name_mapping,
                                       ms_of_last_time_reference))
    ELSE [panic |-> FALSE, messages |-> reference,
          ms_of_last_time_reference |-> ms_of_last_time_reference]

\* One iteration of the for loop of to_vlog.  With overflow checks (a debug
\* build) a change set below the last reference panics in the subtraction;
\* without them the difference wraps.
to_vlog_iteration(timestamped_changes, start, ms_of_last_time_reference, checks, vlog_signal_name_mapping, vlog_detector_name_mapping) ==
    IF checks /\ Lt(timestamped_changes.ms_from_beginning, ms_of_last_time_reference)
    THEN [panic |-> TRUE, messages |-> <<>>,
          ms_of_last_time_reference |-> ms_of_last_time_reference]
    ELSE IF time_reference_due(timestamped_changes.ms_from_beginning, ms_of_last_time_reference)
    THEN transform_changes(timestamped_changes,
            <<get_time_reference(start, timestamped_changes.ms_from_beginning)>>,
            timestamped_changes.ms_from_beginning,
            vlog_signal_name_mapping, vlog_detector_name_mapping)
    ELSE transform_changes(timestamped_changes, <<>>, ms_of_last_time_reference,
            vlog_signal_name_mapping, vlog_detector_name_mapping)

(***************************************************************************)
(* main.rs: the driver loop, one step per log line.                        *)
(***************************************************************************)
VARIABLES
    first_tick,     \* AssimilationData.first_tick
    previous_tick,  \* AssimilationData.previous_tick
    bonus_ms,       \* AssimilationData.bonus_ms
    changes,        \* AssimilationData.changes
    pc,             \* "reading", or "panicked" once the run has aborted
    nread,          \* number of lines consumed from sorted_lines
    emitted,        \* the values find_ms_from_beginning returned for updates
                    \* that carry a tick, in processing order
    last,           \* the line just processed, the clock and the number of
                    \* change sets before it, its outcome and emitted value
    start_date_time,                \* to_vlog: its argument
    tlc_name,                       \* to_vlog: its argument
    overflow_checks,                \* whether u64 arithmetic panics on overflow
    vlog_signal_name_mapping,       \* to_vlog: the loaded signal mapping
    vlog_detector_name_mapping,     \* to_vlog: the loaded detector mapping
    vlog_messages,                  \* to_vlog: the messages pushed so far
    ms_of_last_time_reference,      \* to_vlog: the local of that name
    enc_pc,         \* "idle" before to_vlog, "encoding" in its loop, or
                    \* "panicked"
    nencoded,       \* number of change sets the loop of to_vlog has taken
    last_encoded    \* the change set just taken, ms_of_last_time_reference and
                    \* the number of messages before it, and its outcome

readvars == <<first_tick, previous_tick, bonus_ms, changes, pc, nread, emitted, last>>

encvars == <<start_date_time, tlc_name, overflow_checks, vlog_signal_name_mapping, vlog_detector_name_mapping, vlog_messages, ms_of_last_time_reference, enc_pc, nencoded, last_encoded>>

vars == <<readvars, encvars>>

NoLine == Line("none", FALSE, TickAbsent, JNull, JNoArr, JNoArr)

Last(line, pre, before, outcome, ms) ==
    [line |-> line, pre |-> pre, before |-> before, outcome |-> outcome, ms |-> ms]

\* the values the encoder's variables hold before to_vlog is called
NoDateTime == DateTime(1970, 1, 1, 0, 0, 0, 0)

NoChanges == TimestampedChanges(U(0, 0), <<>>, <<>>, <<>>, <<>>)

\* sorted: the change sets taken so far came with non-decreasing
\* ms_from_beginning
LastEncoded(timestamped_changes, reference, before, outcome, sorted) ==
    [timestamped_changes |-> timestamped_changes, reference |-> reference,
     before |-> before, outcome |-> outcome, sorted |-> sorted]

\* run_with_args / AssimilationData::default: an empty clock, no changes;
\* to_vlog has not been called
Init ==
    /\ first_tick = None
    /\ previous_tick = None
    /\ bonus_ms = None
    /\ changes = <<>>
    /\ pc = "reading"
    /\ nread = 0
    /\ emitted = <<>>
    /\ last = Last(NoLine, ClockData(None, None, None), 0, "none", None)
    /\ start_date_time = NoDateTime
    /\ tlc_name = <<>>
    /\ overflow_checks = FALSE
    /\ vlog_signal_name_mapping = <<>>
    /\ vlog_detector_name_mapping = <<>>
    /\ vlog_messages = <<>>
    /\ ms_of_last_time_reference = U(0, 0)
    /\ enc_pc = "idle"
    /\ nencoded = 0
    /\ last_encoded = LastEncoded(NoChanges, U(0, 0), 0, "none", TRUE)

\* The body of the for loop of read_lines_and_save_changes for one line:
\* [outcome, data, changes (to append), ms]
process_line(line, data) ==
    IF line.shape # "in"
    THEN [outcome |-> "skipped", data |-> data, changes |-> <<>>, ms |-> None]
    ELSE LET f == IF data.first_tick = None THEN find_first_tick(line)
                  ELSE [panic |-> FALSE, tick |-> data.first_tick]
             d == [data EXCEPT !.first_tick = f.tick]
         IN  IF f.panic
             THEN [outcome |-> "panic", data |-> data, changes |-> <<>>, ms |-> None]
             ELSE IF d.first_tick = None
             THEN [outcome |-> "nofirst", data |-> d, changes |-> <<>>, ms |-> None]
             ELSE LET r == parse_string(line, d) IN
                  [outcome |-> r.status, data |-> r.data, changes |-> r.changes, ms |-> r.ms]

\* What the loop body leaves behind for result r of process_line: the
\* mutated AssimilationData and data.changes.extend(..), or the abort.
store_result(line, pre, r) ==
    /\ last' = Last(line, pre, Len(changes), r.outcome, r.ms)
    /\ nread' = nread + 1
    /\ emitted' = IF r.ms # None /\ line.ticks.k = "num"
                  THEN Append(emitted, Unwrap(r.ms)) ELSE emitted
    /\ IF r.outcome = "panic"
       THEN /\ pc' = "panicked"
            /\ UNCHANGED <<first_tick, previous_tick, bonus_ms, changes>>
       ELSE /\ pc' = pc
            /\ first_tick' = r.data.first_tick
            /\ previous_tick' = r.data.previous_tick
            /\ bonus_ms' = r.data.bonus_ms
            /\ changes' = changes \o r.changes
    /\ UNCHANGED encvars

\* One iteration of the for loop of read_lines_and_save_changes
ReadLine(line) ==
    /\ pc = "reading"
    /\ store_result(line, ClockData(first_tick, previous_tick, bonus_ms),
                    process_line(line, ClockData(first_tick, previous_tick, bonus_ms)))

(***************************************************************************)
(* vlog_transformer.rs: to_vlog, its head and one step per change set.     *)
(***************************************************************************)
\* to_vlog up to its for loop: the mappings are loaded, vlog_messages gets
\* the two status messages, ms_of_last_time_reference is 0
to_vlog_begin(start, name, checks, signal_mapping, detector_mapping) ==
    /\ enc_pc = "idle"
    /\ start_date_time' = start
    /\ tlc_name' = name
    /\ overflow_checks' = checks
    /\ vlog_signal_name_mapping' = signal_mapping
    /\ vlog_detector_name_mapping' = detector_mapping
    /\ vlog_messages' = insert_vlog_statuses(start, name)
    /\ ms_of_last_time_reference' = U(0, 0)
    /\ enc_pc' = "encoding"
    /\ UNCHANGED <<nencoded, last_encoded>>
    /\ UNCHANGED readvars

\* What an iteration with result r leaves behind: the messages pushed and
\* the new ms_of_last_time_reference, or the abort.
store_messages(timestamped_changes, r) ==
    /\ last_encoded' = LastEncoded(timestamped_changes, ms_of_last_time_reference,
                            Len(vlog_messages), IF r.panic THEN "panic" ELSE "ok",
                            /\ last_encoded.sorted
                            /\ Le(last_encoded.timestamped_changes.ms_from_beginning,
                                  timestamped_changes.ms_from_beginning))
    /\ nencoded' = nencoded + 1
    /\ IF r.panic
       THEN /\ enc_pc' = "panicked"
            /\ UNCHANGED <<vlog_messages, ms_of_last_time_reference>>
       ELSE /\ enc_pc' = enc_pc
            /\ vlog_messages' = vlog_messages \o r.messages
            /\ ms_of_last_time_reference' = r.ms_of_last_time_reference
    /\ UNCHANGED <<start_date_time, tlc_name, overflow_checks, vlog_signal_name_mapping, vlog_detector_name_mapping>>
    /\ UNCHANGED readvars

\* One iteration of the for loop of to_vlog
to_vlog_changes(timestamped_changes) ==
    /\ enc_pc = "encoding"
    /\ store_messages(timestamped_changes,
            to_vlog_iteration(timestamped_changes, start_date_time, ms_of_last_time_reference,
                overflow_checks, vlog_signal_name_mapping, vlog_detector_name_mapping))

(***************************************************************************)
(* Inputs.                                                                 *)
(***************************************************************************)
MaxLines == 3

MaxDecodeLines == 2

MaxEntries == 3

\* Ticks around the wrap boundary (MAX_TICKS - 5000, MAX_TICKS - 4999, the
\* ticks of the overflow test, MAX_TICKS), the ticks of the reset test, and
\* small ticks after a wrap or a restart.
ClockTicks ==
    {U(0, 12), U(0, 29224), U(293, 219704), U(326, 765322), U(4294, 962295),
     U(4294, 962296), U(4294, 966895), U(4294, 967095), MAX_TICKS}

NamePool == <<"01", "02", "03", "04", "05", "06">>

Names(n) == [i \in 1..n |-> JStr(NamePool[i])]

\* a valid code for both kinds that differs between neighbours
PosCode(i) == i % 2

\* one signal change, a detector update without ids, an unsupported type
SignalLine(t) == Line("in", TRUE, t, JNum(3), JArr(Names(1)), JArr(<<JNum(6)>>))

DetectorNoIdsLine(t) == Line("in", TRUE, t, JNum(4), JNoArr, JNoArr)

OtherTypeLine(t) == Line("in", TRUE, t, JNum(0), JNoArr, JNoArr)

OutLine == Line("out", TRUE, JTick(U(0, 12)), JNum(3), JArr(Names(1)), JArr(<<JNum(6)>>))

UnsplitLine == Line("unsplit", FALSE, TickAbsent, JNull, JNoArr, JNoArr)

BadJsonLine == Line("in", FALSE, TickAbsent, JNull, JNoArr, JNoArr)

ClockLines ==
    {SignalLine(JTick(t)) : t \in ClockTicks}
    \cup {DetectorNoIdsLine(JTick(t)) : t \in ClockTicks}
    \cup {OtherTypeLine(JTick(t)) : t \in {U(0, 29224), U(4294, 967095)}}
    \cup {SignalLine(TickAbsent), SignalLine(TickRange), OutLine, UnsplitLine, BadJsonLine}

\* state arrays of n entries
AllNull(n) == [i \in 1..n |-> JNull]

AllSet(n) == [i \in 1..n |-> JNum(PosCode(i))]

OnlyAt(n, k) == [i \in 1..n |-> IF i = k THEN JNum(PosCode(i)) ELSE JNull]

NullAt(n, k) == [i \in 1..n |-> IF i = k THEN JNull ELSE JNum(PosCode(i))]

WithAt(n, k, v) == [i \in 1..n |-> IF i = k THEN v ELSE JNum(PosCode(i))]

\* ids with a number where a name is expected
NonStringAt(n, k) == [i \in 1..n |-> IF i = k THEN JNotStr ELSE JStr(NamePool[i])]

StatePatterns(n) ==
    {AllNull(n), AllSet(n)} \cup {OnlyAt(n, k) : k \in 1..n} \cup {NullAt(n, k) : k \in 1..n}

TickA == U(0, 100)

TickB == U(0, 350)

UpdateTypes == {JNum(3), JNum(4)}

DecodeLines ==
    \* well-formed updates: every pattern of null / non-null states
    UNION {{Line("in", TRUE, JTick(TickB), ty, JArr(Names(n)), JArr(st)) :
                ty \in UpdateTypes, st \in StatePatterns(n)} : n \in 0..MaxEntries}
    \* every raw state code, in and outside the tables
    \cup {Line("in", TRUE, JTick(TickA), ty, JArr(Names(1)), JArr(<<JNum(c)>>)) :
        ty \in UpdateTypes, c \in 0..10}
    \* an unknown code next to a later malformed state
    \cup {Line("in", TRUE, JTick(TickA), ty, JArr(Names(2)), JArr(<<JNum(4), JText>>)) :
        ty \in UpdateTypes}
    \* malformed shapes
    \cup {Line("in", TRUE, JTick(TickA), ty, ids, sts) :
        ty \in UpdateTypes,
        ids \in {JNoArr, JObj, JArr(Names(2))},
        sts \in {JObj, JArr(AllSet(1))}}
    \cup {Line("in", TRUE, JTick(TickA), ty, JArr(NonStringAt(2, k)), JArr(AllSet(2))) :
        ty \in UpdateTypes, k \in 1..2}
    \cup {Line("in", TRUE, JTick(TickA), ty, JArr(Names(2)), JArr(WithAt(2, k, v))) :
        ty \in UpdateTypes, k \in 1..2, v \in {JText, JRange}}
    \* no tick, or a rejected one
    \cup {Line("in", TRUE, t, ty, JArr(Names(2)), JArr(AllSet(2))) :
        ty \in UpdateTypes, t \in {TickAbsent, TickRange}}
    \* other discriminators, whatever the rest of the payload
    \cup {Line("in", TRUE, t, ty, ids, JArr(AllSet(1))) :
        t \in {JTick(TickA), TickAbsent},
        ty \in {JNum(0), JNum(5), JNull, JText, JRange},
        ids \in {JNoArr, JArr(Names(1)), JArr(Names(2))}}
    \cup {OutLine, UnsplitLine, BadJsonLine}

MaxChangeSets == 2

MaxSignalEntries == 11

MaxDetectorEntries == 16

MaxNameLen == 22

\* signal 0 is the "71" of the test mapping
SignalName(i) == IF i = 0 THEN "71" ELSE FormatD(i, 2)

DetectorName(i) == "D7" \o FormatD(i, 2)

\* get_test_vlog_signal_name_mapping, "01" -> 0, "02" -> 1, ..., "71" -> 18,
\* carried on to 2 * MaxSignalEntries signals
TestSignalMapping ==
    [name \in {SignalName(i) : i \in 0..(2 * MaxSignalEntries)} |->
        IF name = "71" THEN 18
        ELSE (CHOOSE i \in 1..(2 * MaxSignalEntries) : SignalName(i) = name) - 1]

\* get_test_vlog_detector_name_mapping, "D712" -> 4 and "D713" -> 2, with
\* ids above these for the other detectors
DetectorId(i) == IF i = 12 THEN 4 ELSE IF i = 13 THEN 2 ELSE 10 + i

TestDetectorMapping ==
    [name \in {DetectorName(i) : i \in 1..MaxDetectorEntries} |->
        DetectorId(CHOOSE i \in 1..MaxDetectorEntries : DetectorName(i) = name)]

\* the state a change set gives signal i / detector i
SignalStateOf(i) ==
    <<"Red", "Green", "Amber", "Unavailable", "Dark", "AmberFlashing">>[(i % 6) + 1]

DetectorStateOf(i) == IF i % 2 = 0 THEN "OCCUPIED" ELSE "FREE"

\* change sets naming the signals / detectors of the given indices, in
\* that order
SignalChanges(ms, order) ==
    TimestampedChanges(ms, [k \in 1..Len(order) |-> SignalName(order[k])],
        [k \in 1..Len(order) |-> SignalStateOf(order[k])], <<>>, <<>>)

DetectorChanges(ms, order) ==
    TimestampedChanges(ms, <<>>, <<>>, [k \in 1..Len(order) |-> DetectorName(order[k])],
        [k \in 1..Len(order) |-> DetectorStateOf(order[k])])

Ascending(n) == [k \in 1..n |-> k]

Descending(n) == [k \in 1..n |-> n + 1 - k]

\* times around the interval of 300 s, after a reset of the clock, and
\* weeks into the run
EncodeTimes ==
    {U(0, 0), U(0, 530), U(0, 299999), U(0, 300000), U(0, 300099), U(0, 450000),
     U(0, 600000), U(33, 545618), U(4295, 100)}

DetectorTimes == {U(0, 0), U(0, 300000), U(0, 450000)}

ShapeTime == U(0, 530)

\* one small change set of each kind at every time
TimeInputs ==
    {SignalChanges(ms, <<11, 0>>) : ms \in EncodeTimes}
    \cup {DetectorChanges(ms, <<12, 13>>) : ms \in DetectorTimes}

\* change sets of every size at one time: names in descending order (up
\* to MaxSignalEntries signals, and 18, 20 and 21 of them), some in
\* ascending order, two names of one id, an unmapped name, no names
ShapeInputs ==
    {SignalChanges(ShapeTime, Descending(n)) : n \in (1..MaxSignalEntries) \cup {18, 20, 21}}
    \cup {SignalChanges(ShapeTime, Ascending(n)) : n \in {10, 18}}
    \cup {SignalChanges(ShapeTime, <<0, 19, 1>>), SignalChanges(ShapeTime, <<2, 99>>)}
    \cup {DetectorChanges(ShapeTime, Descending(n)) : n \in 1..MaxDetectorEntries}
    \cup {DetectorChanges(ShapeTime, <<1, 99>>), NoChanges}

\* the start of the tests, and a start half a second before a new year
TestStart == DateTime(2021, 12, 15, 11, 0, 0, 0)

YearEndStart == DateTime(2023, 12, 31, 23, 59, 59, 500)

\* controller names: ASCII names of every length up to MaxNameLen, and
\* names with a character of two bytes, of three bytes and a code unit
\* above FF, and of two code units
AsciiName(n) == [i \in 1..n |-> Char(<<<<116, 101, 115, 116>>[((i - 1) % 4) + 1]>>, 1)]

TestName == AsciiName(4)

NonAsciiChars == {Char(<<233>>, 2), Char(<<8364>>, 3), Char(<<55357, 56832>>, 4)}

TlcNames ==
    {AsciiName(n) : n \in 0..MaxNameLen}
    \cup {AsciiName(n) \o <<c>> : n \in {3, 19}, c \in NonAsciiChars}

\* the calls of to_vlog: every name, both builds, both starts
EncoderRuns ==
    {[start |-> TestStart, name |-> n, checks |-> FALSE] : n \in TlcNames}
    \cup {[start |-> s, name |-> TestName, checks |-> c] :
            s \in {TestStart, YearEndStart}, c \in BOOLEAN}

\* the change sets a run is given: all of them under the test name and the
\* test start, where a build with overflow checks differs from one without
\* in the times only; a few under the other names and starts
EncodeInputs ==
    IF tlc_name = TestName /\ start_date_time = TestStart
    THEN IF overflow_checks THEN TimeInputs ELSE TimeInputs \cup ShapeInputs
    ELSE {SignalChanges(ms, <<11, 0>>) : ms \in {U(0, 530), U(0, 300000)}}

Next == \E line \in ClockLines : nread < MaxLines /\ ReadLine(line)

NextEncode ==
    \/ \E run \in EncoderRuns :
          to_vlog_begin(run.start, run.name, run.checks, TestSignalMapping, TestDetectorMapping)
    \/ \E timestamped_changes \in EncodeInputs :
          nencoded < MaxChangeSets /\ to_vlog_changes(timestamped_changes)

SpecEncode == Init /\ [][NextEncode]_vars

Spec == Init /\ [][Next]_vars

NextDecode == \E line \in DecodeLines : nread < MaxDecodeLines /\ ReadLine(line)

SpecDecode == Init /\ [][NextDecode]_vars

TypeOK ==
    /\ pc \in {"reading", "panicked"}
    /\ nread \in 0..(MaxLines + MaxDecodeLines)
    /\ last.outcome \in {"none", "skipped", "nofirst", "ok", "err", "panic"}

(***************************************************************************)
(* Properties.  They speak about the line just processed (last.line), the  *)
(* clock before it (last.pre) and the program state after it.              *)
(***************************************************************************)
\* the line is an inbound signal or detector update
IsUpdate(line) ==
    line.shape = "in" /\ line.json /\ line.type.k = "num" /\ line.type.v \in {3, 4}

\* ... that carries a tick
IsTickedUpdate(line) == IsUpdate(line) /\ line.ticks.k = "num"

LastTick == last.line.ticks.v

\* the normaliser was Running before the line and has processed its tick
NormalizedWhileRunning ==
    /\ IsTickedUpdate(last.line)
    /\ last.pre.first_tick # None
    /\ last.outcome # "panic"

WentNormal == NormalizedWhileRunning /\ Le(Unwrap(last.pre.first_tick), LastTick)

WentBackward ==
    /\ NormalizedWhileRunning
    /\ Lt(LastTick, Unwrap(last.pre.first_tick))
    /\ last.pre.previous_tick # None

Gap == Sub(MAX_TICKS, Unwrap(last.pre.previous_tick))

WentOverflow == WentBackward /\ Lt(Gap, U(0, 5000))

WentReset == WentBackward /\ Le(U(0, 5000), Gap)

\* C1: the emitted ms_from_beginning values are non-decreasing in
\* processing order, overflows and resets included.
C1_Monotonic ==
    \A i \in 1..(Len(emitted) - 1) : Le(emitted[i], emitted[i + 1])

\* the first inbound line that carries a tick, read with no first_tick yet
FirstTickLine ==
    /\ last.line.shape = "in"
    /\ last.line.json
    /\ last.line.ticks.k = "num"
    /\ last.pre.first_tick = None

C3_NormalBranch ==
    WentNormal =>
        /\ last.ms = Some(Sub(LastTick, Unwrap(last.pre.first_tick)))
        /\ first_tick = last.pre.first_tick
        /\ bonus_ms = last.pre.bonus_ms

\* the normal branch taken with a positive bonus_ms and a positive result
C3_Witness ==
    /\ WentNormal
    /\ last.pre.bonus_ms # None
    /\ Lt(U(0, 0), Unwrap(last.pre.bonus_ms))
    /\ last.ms # Some(U(0, 0))

\* C4: while Running, a tick t < first_tick with MAX_TICK - previous_tick
\* < 5000 sets bonus_ms = MAX_TICK - old first_tick, first_tick = t and
\* emits bonus_ms + t; first_tick = 4294966895, previous_tick = 4294967095,
\* t = 12 gives 412; a gap of exactly 5000 is handled as a reset.
C4_Overflow ==
    /\ WentOverflow =>
          /\ bonus_ms = Some(Sub(MAX_TICKS, Unwrap(last.pre.first_tick)))
          /\ first_tick = Some(LastTick)
          /\ last.ms = Some(Add(Unwrap(bonus_ms), LastTick))
    /\ (/\ WentBackward
        /\ last.pre.first_tick = Some(U(4294, 966895))
        /\ last.pre.previous_tick = Some(U(4294, 967095))
        /\ LastTick = U(0, 12)) => last.ms = Some(U(0, 412))
    /\ (WentBackward /\ Gap = U(0, 5000)) =>
          /\ bonus_ms = Some(Sub(Unwrap(last.pre.previous_tick), Unwrap(last.pre.first_tick)))
          /\ last.ms = bonus_ms

\* the overflow of the test: 4294966895, 4294967095, then 12
C4_Witness ==
    /\ WentOverflow
    /\ last.pre.first_tick = Some(U(4294, 966895))
    /\ last.pre.previous_tick = Some(U(4294, 967095))
    /\ LastTick = U(0, 12)
    /\ last.ms = Some(U(0, 412))

\* a backward tick right after a tick exactly 5000 below MAX_TICK
C4_GapOf5000 == WentBackward /\ Gap = U(0, 5000)

\* C5: while Running, a tick t < first_tick with MAX_TICK - previous_tick
\* >= 5000 sets bonus_ms = previous_tick - old first_tick, first_tick = t
\* and emits exactly bonus_ms; first_tick = 293219704, previous_tick =
\* 326765322, t = 29224 gives 33545618.
C5_Reset ==
    /\ WentReset =>
          /\ bonus_ms = Some(Sub(Unwrap(last.pre.previous_tick), Unwrap(last.pre.first_tick)))
          /\ first_tick = Some(LastTick)
          /\ last.ms = bonus_ms
    /\ (/\ WentBackward
        /\ last.pre.first_tick = Some(U(293, 219704))
        /\ last.pre.previous_tick = Some(U(326, 765322))
        /\ LastTick = U(0, 29224)) => last.ms = Some(U(33, 545618))

\* the reset of the test: 293219704, 326765322, then 29224
C5_Witness ==
    /\ WentReset
    /\ last.pre.first_tick = Some(U(293, 219704))
    /\ last.pre.previous_tick = Some(U(326, 765322))
    /\ LastTick = U(0, 29224)
    /\ last.ms = Some(U(33, 545618))

\* C6: after a signal or detector update carrying tick t has been processed
\* while Running, previous_tick = t, in the normal, overflow and reset
\* branches, whether or not the update yields a change set.
C6_PreviousTick ==
    NormalizedWhileRunning => previous_tick = Some(LastTick)

\* an overflow handled for an update that yields no change set
C6_Witness ==
    /\ WentOverflow
    /\ Len(changes) = last.before
    /\ previous_tick = Some(LastTick)
    /\ previous_tick # last.pre.previous_tick

\* C7: a signal or detector update whose tick is absent or not a number
\* fails to decode: no change set is produced for it.
C7_MissingTick ==
    (/\ IsUpdate(last.line)
     /\ last.line.ticks.k = "null"
     /\ last.pre.first_tick # None) =>
        /\ last.outcome = "err"
        /\ Len(changes) = last.before

(***************************************************************************)
(* Decoder properties, over the payload of the line just processed.        *)
(***************************************************************************)
\* parse_string was called for the line: it is inbound and a first tick is
\* known, from an earlier line or from this one
DecoderReached ==
    /\ last.line.shape = "in"
    /\ last.pre.first_tick # None \/ (last.line.json /\ last.line.ticks.k = "num")

\* the tick normaliser aborts on the line: a rejected tick, or a backward
\* tick with no previous tick stored
ClockAborts ==
    \/ last.line.ticks.k = "range"
    \/ /\ last.line.ticks.k = "num"
       /\ last.pre.first_tick # None
       /\ Lt(LastTick, Unwrap(last.pre.first_tick))
       /\ last.pre.previous_tick = None

\* a signal or detector update of the expected shape: no ids at all, or
\* names paired with states that are numbers or null
WellFormed(line) ==
    /\ IsUpdate(line)
    /\ \/ line.ids.k = "null"
       \/ /\ line.ids.k = "arr"
          /\ line.states.k = "arr"
          /\ Len(line.ids.v) = Len(line.states.v)
          /\ \A i \in 1..Len(line.ids.v) :
                line.ids.v[i].k = "str" /\ line.states.v[i].k \in {"num", "null"}

\* the positions whose state is not null, in order
Kept(line) ==
    IF line.ids.k = "null" THEN <<>>
    ELSE SelectSeq([i \in 1..Len(line.ids.v) |-> i], LAMBDA i : line.states.v[i].k = "num")

KeptNames(line) == [j \in 1..Len(Kept(line)) |-> line.ids.v[Kept(line)[j]].v]

KeptCodes(line) == [j \in 1..Len(Kept(line)) |-> line.states.v[Kept(line)[j]].v]

\* the raw codes the tables know
KnownCodes(line) == IF line.type.v = 3 THEN {0, 1, 2, 3, 5, 6, 7, 8, 9} ELSE {0, 1}

AllKnown(line) == \A j \in 1..Len(KeptCodes(line)) : KeptCodes(line)[j] \in KnownCodes(line)

LastChanges == changes[Len(changes)]

\* C8: a signal or detector update yields no change set when every state is
\* null or there are no names, and otherwise exactly one change set with
\* the update's ms_from_beginning and exactly the non-null (name, state)
\* entries in their order, names and states of equal length, one kind only.
C8_ChangeSet ==
    (/\ WellFormed(last.line)
     /\ AllKnown(last.line)
     /\ DecoderReached
     /\ last.outcome # "panic") =>
        /\ last.outcome = "ok"
        /\ IF Kept(last.line) = <<>>
           THEN Len(changes) = last.before
           ELSE /\ Len(changes) = last.before + 1
                /\ LastChanges.ms_from_beginning = Unwrap(last.ms)
                /\ Len(LastChanges.signal_names) = Len(LastChanges.signal_states)
                /\ Len(LastChanges.detector_names) = Len(LastChanges.detector_states)
                /\ IF last.line.type.v = 3
                   THEN /\ LastChanges.signal_names = KeptNames(last.line)
                        /\ LastChanges.signal_states =
                              [j \in 1..Len(Kept(last.line)) |->
                                  SignalStateFrom(KeptCodes(last.line)[j])]
                        /\ LastChanges.detector_names = <<>>
                        /\ LastChanges.detector_states = <<>>
                   ELSE /\ LastChanges.detector_names = KeptNames(last.line)
                        /\ LastChanges.detector_states =
                              [j \in 1..Len(Kept(last.line)) |->
                                  DetectorStateFrom(KeptCodes(last.line)[j])]
                        /\ LastChanges.signal_names = <<>>
                        /\ LastChanges.signal_states = <<>>

\* an update with a null state between two set ones, decoded after the
\* clock has advanced: a change set of two entries
C8_Witness ==
    /\ WellFormed(last.line)
    /\ Len(last.line.ids.v) = 3
    /\ Kept(last.line) = <<1, 3>>
    /\ Len(changes) = last.before + 1
    /\ LastChanges.ms_from_beginning # U(0, 0)
    /\ Len(LastChanges.signal_names) + Len(LastChanges.detector_names) = 2

\* an update whose states are all null: no change set
C8_AllNullCase ==
    /\ WellFormed(last.line)
    /\ last.line.ids.k = "arr"
    /\ Len(last.line.ids.v) = 2
    /\ Kept(last.line) = <<>>
    /\ last.outcome = "ok"

\* a decoded inbound payload whose discriminator is neither 3 nor 4
OtherType ==
    /\ DecoderReached
    /\ last.line.json
    /\ ~IsUpdate(last.line)

\* C9 as stated: any discriminator other than 3 and 4, or a missing one,
\* gives an empty list of change sets as a success, never an error.
C9_Original ==
    OtherType => (last.outcome = "ok" /\ Len(changes) = last.before)

\* C9 amended: 3 decodes as Signal and 4 as Detector; any other
\* discriminator that is an unsigned number, is missing or is not a number
\* gives an empty list as a success, with the clock untouched; a number that
\* cannot be read as an unsigned integer aborts the run.
C9_Dispatch ==
    /\ (OtherType /\ last.line.type.k # "range") =>
          /\ last.outcome = "ok"
          /\ Len(changes) = last.before
          /\ last.ms = None
          /\ previous_tick = last.pre.previous_tick
          /\ bonus_ms = last.pre.bonus_ms
    /\ (OtherType /\ last.line.type.k = "range") => last.outcome = "panic"
    /\ (IsUpdate(last.line) /\ Len(changes) = last.before + 1) =>
          IF last.line.type.v = 3
          THEN LastChanges.signal_names # <<>> /\ LastChanges.detector_names = <<>>
          ELSE LastChanges.detector_names # <<>> /\ LastChanges.signal_names = <<>>

\* discriminator 5 on a payload that would otherwise decode to a change set
C9_Witness ==
    /\ OtherType
    /\ last.line.type = JNum(5)
    /\ last.line.ids.k = "arr"
    /\ last.outcome = "ok"
    /\ Len(changes) = last.before

\* the composed tables as the claim lists them
ClaimSignalCode(c) ==
    CASE c \in {0, 1} -> 4
      [] c \in {2, 3} -> 0
      [] c \in {5, 6} -> 1
      [] c \in {7, 8} -> 2
      [] c = 9 -> 5

ClaimDetectorCode(c) == IF c = 0 THEN 0 ELSE 1

\* C10: raw signal codes 0,1,2,3,5,6,7,8,9 go to protocol codes 4,4,0,0,1,
\* 1,2,2,5 and raw detector codes 0,1 to 0,1 through the ingest and emission
\* tables; any other raw code is fatal.
C10_Tables ==
    (WellFormed(last.line) /\ DecoderReached) =>
        /\ ~AllKnown(last.line) => last.outcome = "panic"
        /\ (AllKnown(last.line) /\ ~ClockAborts) => last.outcome = "ok"
        /\ (last.outcome = "ok" /\ Kept(last.line) # <<>>) =>
              \A j \in 1..Len(Kept(last.line)) :
                  IF last.line.type.v = 3
                  THEN /\ LastChanges.signal_states[j] \in SignalStates
                       /\ SignalToVlogState(LastChanges.signal_states[j])
                             = ClaimSignalCode(KeptCodes(last.line)[j])
                  ELSE /\ LastChanges.detector_states[j] \in DetectorStates
                       /\ DetectorToVlogState(LastChanges.detector_states[j])
                             = ClaimDetectorCode(KeptCodes(last.line)[j])

\* raw signal code 9 accumulated as AmberFlashing, protocol code 5
C10_Witness ==
    /\ WellFormed(last.line)
    /\ last.line.type.v = 3
    /\ KeptCodes(last.line) = <<9>>
    /\ last.outcome = "ok"
    /\ LastChanges.signal_states = <<"AmberFlashing">>
    /\ SignalToVlogState(LastChanges.signal_states[1]) = 5

\* raw signal code 4 aborts the run
C10_FatalCase ==
    /\ WellFormed(last.line)
    /\ last.line.type.v = 3
    /\ KeptCodes(last.line) = <<4>>
    /\ last.outcome = "panic"

(***************************************************************************)
(* Properties of the encoder.  They speak about the change set just taken  *)
(* (last_encoded.timestamped_changes), ms_of_last_time_reference before it *)
(* (last_encoded.reference) and the messages it pushed.                    *)
(***************************************************************************)
MessageType(message) == SubSeq(message, 1, 2)

IsTimeReference(message) == MessageType(message) = "01"

IsChangeRecord(message) == MessageType(message) \in {"0E", "06"}

\* the change set just taken was encoded: the iteration did not abort
Encoded == enc_pc = "encoding" /\ last_encoded.outcome = "ok"

\* the messages the iteration pushed
NewMessages == SubSeq(vlog_messages, last_encoded.before + 1, Len(vlog_messages))

\* the time reference of the start itself: no time added
StartReference ==
    format_time_reference(start_date_time,
        start_date_time.hour * 3600 + start_date_time.minute * 60 + start_date_time.second,
        start_date_time.milli)

\* C11: whatever change sets to_vlog is given, none included, its output
\* begins with the Time Reference of elapsed time 0, then the
\* Identification record, and every change record comes after the two.
C11_Header ==
    IF enc_pc = "idle" THEN vlog_messages = <<>>
    ELSE /\ Len(vlog_messages) >= 2
         /\ vlog_messages[1] = StartReference
         /\ vlog_messages[1] = get_time_reference(start_date_time, U(0, 0))
         /\ vlog_messages[2] = get_vlog_info(tlc_name)
         /\ MessageType(vlog_messages[2]) = "04"
         /\ \A i \in 1..Len(vlog_messages) : IsChangeRecord(vlog_messages[i]) => i > 2

C11_Witness ==
    /\ Encoded
    /\ nencoded >= 2
    /\ Len(vlog_messages) >= 5
    /\ vlog_messages[1] = StartReference
    /\ IsChangeRecord(vlog_messages[Len(vlog_messages)])

\* C11, no change sets: the output is the header block alone
C11_EmptyCase == enc_pc = "encoding" /\ nencoded = 0 /\ Len(vlog_messages) = 2

\* n slots of two hex digits: the code units in order, "20" once they run out
RECURSIVE Slots(_, _)
Slots(units, n) ==
    IF n = 0 THEN ""
    ELSE IF units = <<>> THEN "20" \o Slots(units, n - 1)
    ELSE FormatX(Head(units), 2) \o Slots(Tail(units), n - 1)

\* C12: for every controller name the Identification record is "04",
\* "030000" and exactly 20 slots of 2 hex digits (48 characters): the
\* UTF-16 code units of the name, padded with "20" when there are fewer
\* than 20 and cut to the first 20 when there are more.
C12_Identification ==
    enc_pc # "idle" =>
        /\ vlog_messages[2] = "04" \o "030000" \o Slots(encode_utf16(tlc_name), 20)
        /\ Len(vlog_messages[2]) = 48

\* C12, the example: "test"
C12_TestName ==
    /\ enc_pc # "idle"
    /\ tlc_name = TestName
    /\ vlog_messages[2] = "040300007465737420202020202020202020202020202020"

\* C12, a name of 21 ASCII characters: 21 slots come out, 50 characters
C12_LongName ==
    /\ enc_pc # "idle"
    /\ tlc_name = AsciiName(21)
    /\ vlog_messages[2] = "04" \o "030000" \o Slots(encode_utf16(tlc_name), 21)
    /\ Len(vlog_messages[2]) = 50

EncodedMs == last_encoded.timestamped_changes.ms_from_beginning

\* the change set just encoded is not below the last reference, so that
\* ms_from_beginning - ms_of_last_time_reference is a difference of
\* naturals
EncodedForward == Encoded /\ Le(last_encoded.reference, EncodedMs)

\* ms_from_beginning minus the last reference timestamp is >= 300000 ms
IntervalElapsed == Le(U(0, 300000), Sub(EncodedMs, last_encoded.reference))

C13_NotYetCase ==
    /\ EncodedForward
    /\ last_encoded.reference = U(0, 0)
    /\ EncodedMs = U(0, 299999)
    /\ Len(NewMessages) = 1
    /\ IsChangeRecord(NewMessages[1])

\* a change set below the last reference in a build without overflow
\* checks: the wrapped difference counts as elapsed
C13_WrappedCase ==
    /\ Encoded
    /\ Lt(EncodedMs, last_encoded.reference)
    /\ IsTimeReference(NewMessages[1])
    /\ ms_of_last_time_reference = EncodedMs

\* the three characters behind the type of a change record
DeltaField(message) == SubSeq(message, 3, 5)

\* the place in the output of the most recent Time Reference record
LatestReference ==
    CHOOSE i \in 1..Len(vlog_messages) :
        /\ IsTimeReference(vlog_messages[i])
        /\ \A j \in (i + 1)..Len(vlog_messages) : ~IsTimeReference(vlog_messages[j])

\* ms_from_beginning of the change set just encoded minus the anchor of the
\* most recent Time Reference, in ms; the anchor is not above it
SinceReference == Sub(EncodedMs, ms_of_last_time_reference)

\* C14: while the change sets come with non-decreasing ms_from_beginning,
\* the delta-time field of every change record is
\* floor((ms_from_beginning - last_reference_ms) / 100), last_reference_ms
\* being the anchor of the most recent Time Reference before it in the
\* output; the value is below 3000 and takes exactly 3 hex digits.
C14_DeltaTime ==
    (Encoded /\ last_encoded.sorted) =>
        /\ Le(ms_of_last_time_reference, EncodedMs)
        /\ vlog_messages[LatestReference]
               = get_time_reference(start_date_time, ms_of_last_time_reference)
        /\ LatestReference <= last_encoded.before + 1
        /\ SinceReference[1] = 0
        /\ SinceReference[2] \div 100 < 3000
        /\ Len(Digits(SinceReference[2] \div 100, 16)) <= 3
        /\ \A i \in 1..Len(NewMessages) :
               IsChangeRecord(NewMessages[i]) =>
                   DeltaField(NewMessages[i])
                       = ZeroFill(Digits(SinceReference[2] \div 100, 16), 3)

\* 150 s after a Time Reference at 300 s: delta 1500, written 5DC
C14_Witness ==
    /\ Encoded
    /\ last_encoded.sorted
    /\ nencoded = 2
    /\ ms_of_last_time_reference = U(0, 300000)
    /\ EncodedMs = U(0, 450000)
    /\ Len(NewMessages) = 1
    /\ DeltaField(NewMessages[1]) = "5DC"

\* C14, the largest delta: 299999 ms after the header, 2999, written BB7
C14_LargestCase ==
    /\ Encoded
    /\ last_encoded.sorted
    /\ ms_of_last_time_reference = U(0, 0)
    /\ EncodedMs = U(0, 299999)
    /\ DeltaField(NewMessages[1]) = "BB7"

\* reading a record back: the value of two hex digits
HexDigitValue(c) == CHOOSE d \in 0..15 : HexChar[d + 1] = c

HexPairValue(s) == 16 * HexDigitValue(SubSeq(s, 1, 1)) + HexDigitValue(SubSeq(s, 2, 2))

\* the entries of a change record are its last 4 * EntryCount characters,
\* whatever the width of the count before them
EntryCount(message) == (Len(message) - 6) \div 4

EntryText(message, j) ==
    SubSeq(message, Len(message) - 4 * (EntryCount(message) - j + 1) + 1,
                    Len(message) - 4 * (EntryCount(message) - j))

EntryId(message, j) == HexPairValue(SubSeq(EntryText(message, j), 1, 2))

EntryCode(message, j) == HexPairValue(SubSeq(EntryText(message, j), 3, 4))

\* the change set just encoded, as names with their ids and protocol codes
EncodedIsSignal == last_encoded.timestamped_changes.signal_names # <<>>

EncodedNames ==
    IF EncodedIsSignal THEN last_encoded.timestamped_changes.signal_names
    ELSE last_encoded.timestamped_changes.detector_names

EncodedId(p) ==
    IF EncodedIsSignal THEN vlog_signal_name_mapping[EncodedNames[p]]
    ELSE vlog_detector_name_mapping[EncodedNames[p]]

EncodedCode(p) ==
    IF EncodedIsSignal
    THEN SignalToVlogState(last_encoded.timestamped_changes.signal_states[p])
    ELSE DetectorToVlogState(last_encoded.timestamped_changes.detector_states[p])

\* the change records the iteration pushed
NewRecords == SelectSeq(NewMessages, IsChangeRecord)

\* C15: in every signal or detector change record the entries are in
\* ascending order of mapped id, whatever the order of the names in the
\* change set, and each id is followed by the protocol code of the state
\* the change set pairs with a name of that id.
C15_SortedEntries ==
    Encoded =>
        \A r \in 1..Len(NewRecords) :
            /\ \A j \in 1..(EntryCount(NewRecords[r]) - 1) :
                   EntryId(NewRecords[r], j) <= EntryId(NewRecords[r], j + 1)
            /\ \A j \in 1..EntryCount(NewRecords[r]) :
                   \E p \in 1..Len(EncodedNames) :
                       /\ EncodedId(p) = EntryId(NewRecords[r], j)
                       /\ EncodedCode(p) = EntryCode(NewRecords[r], j)

\* signals "03", "02", "01" with states Unavailable, Amber, Green come out
\* as ids 0, 1, 2 with codes 1, 2, 4
C15_Witness ==
    /\ Encoded
    /\ last_encoded.timestamped_changes.signal_names = <<"03", "02", "01">>
    /\ last_encoded.timestamped_changes.signal_states = <<"Unavailable", "Amber", "Green">>
    /\ NewRecords = <<"0E0053000101020204">>

\* C15, detectors: "D712" OCCUPIED (id 4), "D713" FREE (id 2)
C15_DetectorCase ==
    /\ Encoded
    /\ last_encoded.timestamped_changes.detector_names = <<"D712", "D713">>
    /\ last_encoded.timestamped_changes.detector_states = <<"OCCUPIED", "FREE">>
    /\ NewRecords = <<"06005202000401">>

\* C16: every signal-change record carries at most 10 entries, and a signal
\* change set of more than 10 entries is encoded as several records, one
\* directly behind the other, that all carry the same delta-time field.
C16_SplitRecords ==
    (Encoded /\ EncodedIsSignal) =>
        /\ \A r \in 1..Len(NewRecords) :
               /\ MessageType(NewRecords[r]) = "0E"
               /\ EntryCount(NewRecords[r]) <= 10
        /\ Len(EncodedNames) > 10 =>
               /\ Len(NewRecords) >= 2
               /\ \A i \in 2..Len(NewMessages) : IsChangeRecord(NewMessages[i])
               /\ \A r \in 1..Len(NewRecords) :
                      DeltaField(NewRecords[r]) = DeltaField(NewRecords[1])

\* 21 signals: records of 10, 10 and 1 entries with one delta time
C16_Witness ==
    /\ Encoded
    /\ EncodedIsSignal
    /\ Len(EncodedNames) = 21
    /\ Len(NewRecords) = 3
    /\ EntryCount(NewRecords[1]) = 10
    /\ EntryCount(NewRecords[2]) = 10
    /\ EntryCount(NewRecords[3]) = 1
    /\ DeltaField(NewRecords[1]) = "005"
    /\ DeltaField(NewRecords[3]) = "005"

\* the entries of the records of a sequence, one behind the other
RECURSIVE EntriesOf(_)
EntriesOf(records) ==
    IF records = <<>> THEN ""
    ELSE SubSeq(Head(records), Len(Head(records)) - 4 * EntryCount(Head(records)) + 1,
                Len(Head(records)))
            \o EntriesOf(Tail(records))

AllEntries == EntriesOf(NewRecords)

AllEntryId(k) == HexPairValue(SubSeq(AllEntries, 4 * k - 3, 4 * k - 2))

AllEntryCode(k) == HexPairValue(SubSeq(AllEntries, 4 * k - 1, 4 * k))

\* a signal change set of more than 10 names has been encoded
EncodedSplit == Encoded /\ EncodedIsSignal /\ Len(EncodedNames) > 10

\* C17: the records of a split signal change set, taken in output order,
\* hold every entry of the change set exactly once, and their entries one
\* behind the other are in ascending order of mapped id, whatever the order
\* of the names.
C17_SplitOrder ==
    EncodedSplit =>
        /\ Len(AllEntries) = 4 * Len(EncodedNames)
        /\ \A p \in 1..Len(EncodedNames) :
               Cardinality({k \in 1..Len(EncodedNames) :
                              AllEntryId(k) = EncodedId(p) /\ AllEntryCode(k) = EncodedCode(p)})
                   = Cardinality({q \in 1..Len(EncodedNames) :
                              EncodedId(q) = EncodedId(p) /\ EncodedCode(q) = EncodedCode(p)})
        /\ \A k \in 1..(Len(EncodedNames) - 1) : AllEntryId(k) <= AllEntryId(k + 1)

\* C17, names in ascending order: the entries of the two records are in
\* order
C17_AscendingCase ==
    /\ EncodedSplit
    /\ EncodedNames = [k \in 1..18 |-> SignalName(k)]
    /\ \A k \in 1..17 : AllEntryId(k) < AllEntryId(k + 1)

\* C17, signals "11", "10", ..., "01": the first record holds ids 1..10, the
\* second id 0
C17_DescendingCase ==
    /\ EncodedSplit
    /\ EncodedNames = [k \in 1..11 |-> SignalName(12 - k)]
    /\ AllEntryId(1) = 1
    /\ AllEntryId(10) = 10
    /\ AllEntryId(11) = 0

\* C17 without the order: no entry of a split change set is lost or
\* written twice
C17_NoLoss ==
    EncodedSplit =>
        /\ Len(AllEntries) = 4 * Len(EncodedNames)
        /\ \A p \in 1..Len(EncodedNames) :
               Cardinality({k \in 1..Len(EncodedNames) :
                              AllEntryId(k) = EncodedId(p) /\ AllEntryCode(k) = EncodedCode(p)})
                   = Cardinality({q \in 1..Len(EncodedNames) :
                              EncodedId(q) = EncodedId(p) /\ EncodedCode(q) = EncodedCode(p)})

\* the character behind the delta time of a signal-change record
CountField(message) == SubSeq(message, 6, 6)

\* a signal change set of 18 names has been encoded
EncodedEighteen == Encoded /\ EncodedIsSignal /\ Len(EncodedNames) = 18

\* C18 as stated: a signal change set of 18 entries is split into two
\* records of 9 entries each.
C18_Original ==
    EncodedEighteen =>
        /\ Len(NewRecords) = 2
        /\ EntryCount(NewRecords[1]) = 9
        /\ EntryCount(NewRecords[2]) = 9

\* C18 amended: a signal change set of 18 entries is split into a record of
\* 10 entries followed by a record of 8 entries.
C18_TenAndEight ==
    EncodedEighteen =>
        /\ Len(NewRecords) = 2
        /\ EntryCount(NewRecords[1]) = 10
        /\ CountField(NewRecords[1]) = "A"
        /\ Len(NewRecords[1]) = 46
        /\ EntryCount(NewRecords[2]) = 8
        /\ CountField(NewRecords[2]) = "8"
        /\ Len(NewRecords[2]) = 38

\* signals "01" .. "18" in this order, as in the test of the module
C18_Witness ==
    /\ EncodedEighteen
    /\ EncodedNames = [k \in 1..18 |-> SignalName(k)]
    /\ Len(NewRecords) = 2
    /\ SubSeq(NewRecords[1], 1, 10) = "0E005A0001"
    /\ SubSeq(NewRecords[2], 1, 10) = "0E00580A05"

\* the number of entries the r-th record of the change set just encoded
\* carries: a detector change set goes into one record, a signal change
\* set fills its records with 10 entries each, the rest in the last
Carried(r) ==
    IF ~EncodedIsSignal THEN Len(EncodedNames)
    ELSE IF 10 * r <= Len(EncodedNames) THEN 10
    ELSE Len(EncodedNames) - 10 * (r - 1)

HexChars == {HexChar[d] : d \in 1..16}

\* type, 3 hex digits of delta time, one hex digit equal to n, n entries of
\* 4 hex digits: 6 + 4n characters
HasLayout(message, type, n) ==
    /\ MessageType(message) = type
    /\ Len(message) = 6 + 4 * n
    /\ CountField(message) = HexChar[n + 1]
    /\ \A i \in 1..Len(message) : SubSeq(message, i, i) \in HexChars

\* C19: every change record carrying n entries, signal (0E) or detector
\* (06), n from 1 to 15, is its type, 3 hex digits of delta time, exactly
\* one hex digit equal to n and n entries of 4 hex digits, 6 + 4n
\* characters; detector change sets of 10 to 15 entries included.
C19_Layout ==
    Encoded =>
        \A r \in 1..Len(NewRecords) :
            Carried(r) \in 1..15 =>
                HasLayout(NewRecords[r], IF EncodedIsSignal THEN "0E" ELSE "06", Carried(r))

\* C19 for signal records and for detector records of up to 9 entries
C19_LayoutBelowTen ==
    Encoded =>
        \A r \in 1..Len(NewRecords) :
            (Carried(r) \in 1..15 /\ (EncodedIsSignal \/ Carried(r) <= 9)) =>
                HasLayout(NewRecords[r], IF EncodedIsSignal THEN "0E" ELSE "06", Carried(r))

\* C19, a signal record of 10 entries: count A, 46 characters
C19_SignalTenCase ==
    /\ Encoded
    /\ EncodedIsSignal
    /\ Len(EncodedNames) = 11
    /\ HasLayout(NewRecords[1], "0E", 10)
    /\ HasLayout(NewRecords[2], "0E", 1)

\* C19, a detector record of 10 entries: the count is written 10, in two
\* characters, and the record has 47
C19_DetectorTenCase ==
    /\ Encoded
    /\ ~EncodedIsSignal
    /\ Len(EncodedNames) = 10
    /\ Len(NewRecords) = 1
    /\ SubSeq(NewRecords[1], 1, 7) = "0600510"
    /\ Len(NewRecords[1]) = 47

\* the iteration just run was given a detector change set of more than 15
\* entries
TookWideDetectorChanges ==
    /\ last_encoded.outcome # "none"
    /\ ~EncodedIsSignal
    /\ Len(last_encoded.timestamped_changes.detector_names) > 15

\* C20: a detector change set of more than 15 entries, whose count does not
\* fit the single hex digit of the record, makes the encoder fail before
\* formatting: the run aborts and no record is pushed for the change set.
C20_CountOverflow ==
    TookWideDetectorChanges =>
        /\ last_encoded.outcome = "panic"
        /\ enc_pc = "panicked"
        /\ Len(vlog_messages) = last_encoded.before

\* C20, 16 detectors: the record is pushed, its count written 16 in two
\* characters
C20_WideCountCase ==
    /\ TookWideDetectorChanges
    /\ Encoded
    /\ Len(EncodedNames) = 16
    /\ Len(NewRecords) = 1
    /\ SubSeq(NewRecords[1], 1, 7) = "0600516"
    /\ Len(NewRecords[1]) = 7 + 4 * 16

\* C21: a signal change set of n >= 1 entries is encoded as exactly
\* ceil(n / 10) records and each of them carries at least one entry: no
\* record with count 0 and no entries, n = 10 and n = 20 included.
C21_RecordCount ==
    (Encoded /\ EncodedIsSignal) =>
        /\ Len(NewRecords) = (Len(EncodedNames) + 9) \div 10
        /\ \A r \in 1..Len(NewRecords) :
               /\ EntryCount(NewRecords[r]) >= 1
               /\ CountField(NewRecords[r]) # "0"

\* C21 when n is no multiple of 10: 11 signals give 2 records, of 10 and 1
\* entries
C21_ElevenCase ==
    /\ Encoded
    /\ EncodedIsSignal
    /\ Len(EncodedNames) = 11
    /\ Len(NewRecords) = 2
    /\ EntryCount(NewRecords[2]) = 1

\* C21, 10 signals: a record of 10 entries and behind it a record with
\* count 0 and no entries
C21_EmptyRecordCase ==
    /\ Encoded
    /\ EncodedIsSignal
    /\ Len(EncodedNames) = 10
    /\ Len(NewRecords) = 2
    /\ EntryCount(NewRecords[1]) = 10
    /\ NewRecords[2] = "0E0050"

\* C21, 20 signals: three records, the last one empty
C21_TwentyCase ==
    /\ Encoded
    /\ EncodedIsSignal
    /\ Len(EncodedNames) = 20
    /\ Len(NewRecords) = 3
    /\ NewRecords[3] = "0E0050"

(***************************************************************************)
(* main.rs, run_with_args: the lines are read, then to_vlog is called with *)
(* the change sets that were collected.                                    *)
(***************************************************************************)
\* ticks before and after a stretch longer than the interval of the Time
\* References, and ticks around the wrap
PipelineTicks ==
    {U(0, 12), U(0, 29224), U(293, 219704), U(326, 765322), U(4294, 966895),
     U(4294, 967095)}

PipelineLines ==
    {SignalLine(JTick(t)) : t \in PipelineTicks}
    \cup {SignalLine(TickAbsent), OtherTypeLine(JTick(U(0, 29224))), OutLine}

\* run_with_args after read_lines_and_save_changes has returned: to_vlog is
\* called and runs up to its loop
call_to_vlog(checks) ==
    /\ pc = "reading"
    /\ to_vlog_begin(TestStart, TestName, checks, TestSignalMapping, TestDetectorMapping)

\* the next iteration of for timestamped_changes in timestamped_changes_vec
to_vlog_next ==
    /\ nencoded < Len(changes)
    /\ to_vlog_changes(changes[nencoded + 1])

NextPipeline ==
    \/ \E line \in PipelineLines : enc_pc = "idle" /\ nread < MaxLines /\ ReadLine(line)
    \/ \E checks \in BOOLEAN : call_to_vlog(checks)
    \/ to_vlog_next

SpecPipeline == Init /\ [][NextPipeline]_vars

\* to_vlog has taken a change set the reader produced
TookChanges == enc_pc # "idle" /\ last_encoded.outcome # "none"

\* C22: for the change sets the normaliser produces from a sequence of
\* ticks, whenever to_vlog takes one its ms_from_beginning is not below the
\* last reference timestamp, so that ms_from_beginning -
\* ms_of_last_time_reference does not underflow.
C22_NoUnderflow ==
    TookChanges => Le(last_encoded.reference, EncodedMs)

\* a change set below the last reference in a build with overflow checks:
\* the run aborts in the subtraction
C22_PanicCase ==
    /\ TookChanges
    /\ overflow_checks
    /\ Lt(EncodedMs, last_encoded.reference)
    /\ enc_pc = "panicked"

\* ... and in a build without: the difference wraps, and a Time Reference
\* anchored before the previous one is pushed
C22_WrapCase ==
    /\ TookChanges
    /\ ~overflow_checks
    /\ Lt(EncodedMs, last_encoded.reference)
    /\ enc_pc = "encoding"
    /\ IsTimeReference(NewMessages[1])
    /\ ms_of_last_time_reference = EncodedMs

\* the run of the ticks 12, 293219704, 12
C22_TicksCase ==
    /\ TookChanges
    /\ nencoded = 3
    /\ emitted = <<U(0, 0), U(293, 219692), U(0, 0)>>
    /\ last_encoded.reference = U(293, 219692)
    /\ EncodedMs = U(0, 0)

\* first_tick and previous_tick are both set
BothSet(data) == data.first_tick # None /\ data.previous_tick # None

\* first_tick <= previous_tick <= MAX_TICKS in the clock data
Ordered(data) ==
    /\ Le(Unwrap(data.first_tick), Unwrap(data.previous_tick))
    /\ Le(Unwrap(data.previous_tick), MAX_TICKS)

\* C23: in every reachable state of the clock in which first_tick and
\* previous_tick are both set, first_tick <= previous_tick <= MAX_TICKS
\* (the ticks of the input being at most MAX_TICKS); in particular this
\* held of the clock the backward branch found, so that neither
\* previous_tick - first_tick nor MAX_TICKS - previous_tick underflowed.
C23_TickOrder ==
    /\ BothSet(ClockData(first_tick, previous_tick, bonus_ms)) =>
           Ordered(ClockData(first_tick, previous_tick, bonus_ms))
    /\ WentBackward => Ordered(last.pre)

\* the backward branch has subtracted, from a clock whose previous_tick
\* was strictly above first_tick, and has left both set
C23_Witness ==
    /\ WentBackward
    /\ Lt(Unwrap(last.pre.first_tick), Unwrap(last.pre.previous_tick))
    /\ BothSet(ClockData(first_tick, previous_tick, bonus_ms))
    /\ first_tick = Some(LastTick)
    /\ previous_tick = Some(LastTick)

\* the normal branch has moved previous_tick above first_tick
C23_NormalCase ==
    /\ WentNormal
    /\ first_tick # None /\ previous_tick # None
    /\ Lt(Unwrap(first_tick), Unwrap(previous_tick))

\* previous_tick has reached MAX_TICKS
C23_MaxCase == previous_tick = Some(MAX_TICKS) /\ first_tick # None

\* the tick of the line is below the previous_tick the normaliser held
TickWentBack ==
    /\ NormalizedWhileRunning
    /\ last.pre.previous_tick # None
    /\ Lt(LastTick, Unwrap(last.pre.previous_tick))

\* the overflow-or-reset branch has acted on the line: first_tick is the
\* tick, and bonus_ms is what one of its two arms stores
Rebased ==
    /\ first_tick = Some(LastTick)
    /\ bonus_ms \in {Some(Sub(MAX_TICKS, Unwrap(last.pre.first_tick))),
                     Some(Sub(Unwrap(last.pre.previous_tick), Unwrap(last.pre.first_tick)))}

\* C24: whenever a processed tick is below the previous tick, the
\* normaliser takes the overflow-or-reset branch, which re-bases first_tick
\* and bonus_ms; no backward tick goes through the normal branch.
C24_BackwardRebases ==
    TickWentBack => (WentBackward /\ Rebased)

\* a tick below previous_tick but not below first_tick: the normal branch
\* takes it, and first_tick and bonus_ms stay
C24_NormalBranchCase ==
    /\ TickWentBack
    /\ WentNormal
    /\ first_tick = last.pre.first_tick
    /\ bonus_ms = last.pre.bonus_ms
    /\ last.ms = Some(Sub(LastTick, Unwrap(last.pre.first_tick)))

\* a tick below first_tick: the branch is taken and re-bases
C24_RebasedCase == TickWentBack /\ WentBackward /\ Rebased

\* the run of the ticks 12, 293219704, 29224
C24_TicksCase ==
    /\ TickWentBack
    /\ last.pre.first_tick = Some(U(0, 12))
    /\ last.pre.previous_tick = Some(U(293, 219704))
    /\ LastTick = U(0, 29224)
    /\ first_tick = Some(U(0, 12))
    /\ last.ms = Some(U(0, 29212))

====
